---- MODULE Spec2Model ----
(***************************************************************************)
(* Sub-encoder (subencode.py): check_div, encode_byte, encode_chunk and    *)
(* decode/verify_chunk, modelled as TLA+ operators and as the state        *)
(* machine of one encode_chunk call (one step per byte position).          *)
(***************************************************************************)
EXTENDS Integers, Sequences, FiniteSets, TLC

(***************************************************************************)
(* Program constants.                                                      *)
(***************************************************************************)
\* Width in bytes of the words packed by p32 / masked by 0xFFFFFFFF.  A 32-bit
\* value is kept as its four bytes, least significant first (TLC's integers
\* stop at 2^31 - 1); arithmetic modulo 2^32 is done on the bytes with borrow.
WordBytes == 4
\* 0x100: the borrow added by check_div's retry; 0xFF + 1 in encode_chunk.
ByteMod == 256
\* argparse default of --max-div.
DefaultMaxDiv == 10

(***************************************************************************)
(* Bounds of the model.                                                    *)
(***************************************************************************)
\* encode_chunk is run with max_div in 0..MaxDivBound and with the default.
MaxDivBound == 5
\* check_div on its own is called with x in 0..MaxX (beyond one byte),
MaxX == 300
\* with div in 1..MaxDivArg,
MaxDivArg == 4
\* and with an incoming carry in 0..MaxCarryArg.
MaxCarryArg == 2

(***************************************************************************)
(* Inputs.  good_bytes is a Python bytes object: a sequence of bytes.      *)
(***************************************************************************)
GoodByteSets ==
    { <<65>>, <<1>>, <<85, 128>>, <<0, 2, 129, 64, 65>>, <<1, 0>>, <<127, 128, 255>> }

\* The complements X = (initial - chunk) mod 2^32 the chunks are drawn for, as
\* p32(X): four bytes, least significant first.  The last two are those of
\* chunk 0x41414141 and of chunk 0x00000005 with initial 0.
Targets ==
    { <<b0, b1, hi[1], hi[2]>> :
        b0 \in {0, 1, 2, 255}, b1 \in {0, 1, 2, 255},
        hi \in { <<0, 0>>, <<2, 2>>, <<3, 4>>, <<254, 255>> } }
    \cup { <<191, 190, 190, 190>>, <<251, 255, 255, 255>> }

Initials == { <<0, 0, 0, 0>>, <<1, 0, 0, 1>> }

MaxDivs == (0..MaxDivBound) \cup {DefaultMaxDiv}

VARIABLES
    chunk, initial, good_bytes, max_div,  \* arguments of encode_chunk
    X,                                    \* the complement
    encodings, carry, div,                \* locals of encode_chunk
    i,                                    \* byte position of the for loop
    pc,                                   \* "loop", "returned", "EncodingFailure"
    result,                               \* encodings_final
    restarts,                             \* number of BiggerDivision handled
    call, ret                             \* one direct call of check_div

vars == <<chunk, initial, good_bytes, max_div, X, encodings, carry, div, i, pc,
          result, restarts, call, ret>>

(***************************************************************************)
(* check_div                                                               *)
(***************************************************************************)
\* raise DivisionFailed
DivisionFailed == [ok |-> FALSE, carry |-> 0, vals |-> <<>>]

\* `v in good_bytes`
InBytes(v, gb) == \E k \in 1..Len(gb) : gb[k] = v

\* [v] * n
Repeat(v, n) == [k \in 1..n |-> v]

\* offsets = [c - v for c in good_bytes]
Offsets(v, gb) == [k \in 1..Len(gb) |-> gb[k] - v]

\* `mod == 0` on the fast path.  `mod` is not the remainder (that is `m`) and
\* is not assigned in this file: it is the name brought in by
\* `from pwn import *` (pwnlib.util.packing binds mod to its module object),
\* which never compares equal to 0.  The fast path is therefore never taken.
ModIsZero(m) == FALSE

NotFound == [found |-> FALSE, list |-> <<>>]

\* The first tuple, in itertools.combinations_with_replacement order (tuples of
\* non-decreasing positions, lexicographic), of k offsets at positions >= from
\* whose sum is m.
RECURSIVE FirstCombination(_, _, _, _)
FirstCombination(offs, from, k, m) ==
    IF k = 0 THEN [found |-> (m = 0), list |-> <<>>]
    ELSE IF from > Len(offs) THEN NotFound
    ELSE LET r == FirstCombination(offs, from, k - 1, m - offs[from])
         IN  IF r.found
             THEN [found |-> TRUE, list |-> <<offs[from]>> \o r.list]
             ELSE FirstCombination(offs, from + 1, k, m)

\* mutant: the split sizes stop one short, range(1, div - 1)
LastSplitShort(d) == d - 2

\* range(1, div): the split sizes tried
LastSplit(d) == d - 1

\* for split in range(1, div): for offset_list in combinations...: first hit
RECURSIVE FirstSplit(_, _, _, _)
FirstSplit(offs, split, d, m) ==
    IF split > LastSplit(d) THEN NotFound
    ELSE LET r == FirstCombination(offs, 1, split, m)
         IN  IF r.found THEN r ELSE FirstSplit(offs, split + 1, d, m)

\* mutant: the split search is entered without the membership test
BaseAllowedUnchecked(v, gb) == TRUE

\* `if v in good_bytes:` guarding the split search
BaseAllowed(v, gb) == InBytes(v, gb)

\* mutant: the retry adds 0x100 to x and forgets to count the carry
RetryCarryKept(c) == c

\* carry=carry + 1 of the retry
RetryCarry(c) == c + 1

RECURSIVE check_div(_, _, _, _, _)
check_div(x, d, gb, c, recurse) ==
    LET v == x \div d
        m == x % d
    IN  IF v >= ByteMod THEN DivisionFailed
        ELSE IF ModIsZero(m) /\ InBytes(v, gb)
        THEN [ok |-> TRUE, carry |-> c, vals |-> Repeat(v, d)]
        ELSE LET s == IF BaseAllowed(v, gb) THEN FirstSplit(Offsets(v, gb), 1, d, m)
                      ELSE NotFound
             IN  IF s.found
                 THEN [ok |-> TRUE, carry |-> c,
                       vals |-> [k \in 1..Len(s.list) |-> v + s.list[k]]
                                \o Repeat(v, d - Len(s.list))]
                 ELSE IF recurse THEN DivisionFailed
                 ELSE check_div(x + ByteMod, d, gb, RetryCarry(c), TRUE)

(***************************************************************************)
(* encode_byte                                                             *)
(***************************************************************************)
\* mutant: an unset min_div starts the search beyond the first divisors
StartDivSkipping(min_div) == IF min_div = 0 THEN 3 ELSE min_div

\* start_div
StartDiv(min_div) == IF min_div = 0 THEN 1 ELSE min_div

\* mutant: the ceiling is taken as inclusive
LoopLimitInclusive(maxd) == maxd + 1

\* max_div & 0xFFFFFFFF: the mask leaves every max_div in 0..2^32-1 as it is
\* (only such values are drawn; a negative one would become max_div + 2^32).
LoopLimit(maxd) == maxd

\* mutant: BiggerDivision is raised for the committed divisor too
NeedsBiggerDivisionOrEqual(min_div, d) == min_div # 0 /\ d >= min_div

\* `if min_div != 0 and div > min_div`
NeedsBiggerDivision(min_div, d) == min_div # 0 /\ d > min_div

\* the body of `for div in range(start_div, max_div & 0xFFFFFFFF)`, from d on
RECURSIVE EncodeByteFrom(_, _, _, _, _, _)
EncodeByteFrom(x, gb, min_div, maxd, c, d) ==
    IF d >= LoopLimit(maxd)
    THEN [tag |-> "EncodingFailure", carry |-> c, vals |-> <<>>, div |-> 0]
    ELSE LET r == check_div(x, d, gb, c, FALSE)
         IN  IF ~r.ok THEN EncodeByteFrom(x, gb, min_div, maxd, c, d + 1)
             ELSE IF NeedsBiggerDivision(min_div, d)
             THEN [tag |-> "BiggerDivision", carry |-> r.carry, vals |-> r.vals, div |-> d]
             ELSE [tag |-> "return", carry |-> r.carry, vals |-> r.vals, div |-> d]

encode_byte(x, gb, min_div, maxd, c) ==
    EncodeByteFrom(x, gb, min_div, maxd, c, StartDiv(min_div))

(***************************************************************************)
(* decode / verify_chunk, p32 / u32                                        *)
(***************************************************************************)
\* (a - b) & 0xFFFFFFFF on words: byte k of the difference, with the borrow
\* out of byte k
RECURSIVE SubBorrow(_, _, _)
SubBorrow(a, b, k) ==
    IF k = 0 THEN 0
    ELSE IF a[k] - b[k] - SubBorrow(a, b, k - 1) < 0 THEN 1 ELSE 0

SubWord(a, b) ==
    [k \in 1..WordBytes |-> (a[k] - b[k] - SubBorrow(a, b, k - 1)) % ByteMod]

RECURSIVE decode_from(_, _, _)
decode_from(encs, r, k) ==
    IF k > Len(encs) THEN r ELSE decode_from(encs, SubWord(r, encs[k]), k + 1)

decode(encs, init) == decode_from(encs, init, 1)

verify_chunk(c, encs, init) == c = decode(encs, init)

\* p32(v)[k], k = 0..3 (little-endian)
p32(v, k) == v[k + 1]

\* u32(bytes(row)): bytes() takes values in range(256) only, u32 four of them
u32(row) == [k \in 1..WordBytes |-> row[k] % ByteMod]

\* mutant: the operands of the complement swapped
ComplementSwapped(init, c) == SubWord(c, init)

\* X = (initial - chunk) & 0xFFFFFFFF
Complement(init, c) == SubWord(init, c)

\* the chunks (as p32(chunk)) whose complement is one of Targets
Chunks(init) == { SubWord(init, t) : t \in Targets }

(***************************************************************************)
(* encode_chunk: one step per iteration of the for loop                    *)
(***************************************************************************)
\* [[] for i in range(d)]
EmptyMatrix(d) == [r \in 1..d |-> <<>>]

\* lines 144-149: the byte handed to encode_byte and the carry handed with it
AdjustedByte(raw, c) == (raw - c) % ByteMod
NaturalCarry(raw, c) == IF raw < c THEN 1 ELSE 0

RawByte == p32(X, i)
ByteOutcome ==
    encode_byte(AdjustedByte(RawByte, carry), good_bytes, div, max_div,
                NaturalCarry(RawByte, carry))

\* the carry encode_chunk holds when BiggerDivision is caught: the handler does
\* not assign it, so it is the value of lines 144-149
CarryAtRestart(raw, c) == NaturalCarry(raw, c)

Init ==
    /\ initial \in Initials
    /\ chunk \in Chunks(initial)
    /\ good_bytes \in GoodByteSets
    /\ max_div \in MaxDivs
    /\ X = Complement(initial, chunk)
    /\ encodings = <<>>
    /\ carry = 0
    /\ div = 0
    /\ i = 0
    /\ pc = "loop"
    /\ result = <<>>
    /\ restarts = 0
    /\ call = [x |-> 0, div |-> 1, carry |-> 0]
    /\ ret = "none"

\* encode_byte returned: lines 152-163
ByteEncoded ==
    /\ pc = "loop" /\ i < WordBytes
    /\ ByteOutcome.tag = "return"
    /\ LET o == ByteOutcome
           d == IF div = 0 THEN Len(o.vals) ELSE div
           m == IF div = 0 THEN EmptyMatrix(d) ELSE encodings
       IN  /\ div' = d
           /\ encodings' = [r \in 1..d |-> Append(m[r], o.vals[r])]
           /\ carry' = o.carry
    /\ i' = i + 1
    /\ UNCHANGED <<chunk, initial, good_bytes, max_div, X, pc, result, restarts, call, ret>>

\* except BiggerDivision: lines 170-176
Restart ==
    /\ pc = "loop" /\ i < WordBytes
    /\ ByteOutcome.tag = "BiggerDivision"
    /\ div' = ByteOutcome.div
    /\ encodings' = EmptyMatrix(ByteOutcome.div)
    /\ carry' = CarryAtRestart(RawByte, carry)
    /\ i' = 0
    /\ restarts' = restarts + 1
    /\ UNCHANGED <<chunk, initial, good_bytes, max_div, X, pc, result, call, ret>>

\* EncodingFailure propagates out of encode_chunk
Fail ==
    /\ pc = "loop" /\ i < WordBytes
    /\ ByteOutcome.tag = "EncodingFailure"
    /\ pc' = "EncodingFailure"
    /\ carry' = NaturalCarry(RawByte, carry)
    /\ UNCHANGED <<chunk, initial, good_bytes, max_div, X, encodings, div, i, result,
                   restarts, call, ret>>

\* the for loop's else: lines 164-168
Return ==
    /\ pc = "loop" /\ i = WordBytes
    /\ result' = [r \in 1..Len(encodings) |-> u32(encodings[r])]
    /\ pc' = "returned"
    /\ UNCHANGED <<chunk, initial, good_bytes, max_div, X, encodings, carry, div, i,
                   restarts, call, ret>>

Next == ByteEncoded \/ Restart \/ Fail \/ Return

Spec == Init /\ [][Next]_vars

\* encode_chunk is one synchronous call: it keeps running until it returns or raises
FairSpec == Spec /\ WF_vars(Next)

(***************************************************************************)
(* check_div called on its own                                             *)
(***************************************************************************)
InitDiv ==
    /\ chunk = <<0, 0, 0, 0>> /\ initial = <<0, 0, 0, 0>> /\ max_div = 0
    /\ X = <<0, 0, 0, 0>>
    /\ encodings = <<>> /\ carry = 0 /\ div = 0 /\ i = 0 /\ pc = "check_div"
    /\ result = <<>> /\ restarts = 0
    /\ good_bytes \in GoodByteSets
    /\ call \in [x : 0..MaxX, div : 1..MaxDivArg, carry : 0..MaxCarryArg]
    /\ ret = "none"

CallCheckDiv ==
    /\ pc = "check_div"
    /\ ret' = check_div(call.x, call.div, good_bytes, call.carry, FALSE)
    /\ pc' = "called"
    /\ UNCHANGED <<chunk, initial, good_bytes, max_div, X, encodings, carry, div, i,
                   result, restarts, call>>

NextDiv == CallCheckDiv

SpecDiv == InitDiv /\ [][NextDiv]_vars

(***************************************************************************)
(* Properties of encode_chunk                                              *)
(***************************************************************************)
GoodSet == {good_bytes[k] : k \in 1..Len(good_bytes)}

\* C1 (round trip): whenever encode_chunk returns an encoding E, subtracting the
\* components of E from initial one after another modulo 2^32 gives chunk back,
\* on every path to the return (after restarts, with bytes below the carry).
C1_RoundTrip == pc = "returned" => verify_chunk(chunk, result, initial)

\* C2 (byte membership): every value ever appended to the encoding matrix is a
\* good byte, and each of the four bytes of each returned component is one.
C2_ByteMembership ==
    /\ \A r \in 1..Len(encodings) : \A k \in 1..Len(encodings[r]) :
           encodings[r][k] \in GoodSet
    /\ pc = "returned" =>
           /\ Len(result) = div
           /\ \A r \in 1..Len(result) : \A k \in 0..(WordBytes - 1) :
                  p32(result[r], k) \in GoodSet

\* an encoding of at least two components was returned after a restart
C2_Witness == pc = "returned" /\ restarts > 0 /\ Len(result) >= 2

\* encode_byte is about to be called for byte position i
AtByte == pc = "loop" /\ i < WordBytes

\* check_div (with its one +256 retry) fails for divisor d on the byte about to
\* be encoded
DivisorFails(d) ==
    ~check_div(AdjustedByte(RawByte, carry), d, good_bytes,
               NaturalCarry(RawByte, carry), FALSE).ok

\* Scenario C: G = {0x01}, max_div = 2, initial = 0, chunk = 0x00000005
ScenarioC ==
    /\ good_bytes = <<1>> /\ max_div = 2
    /\ initial = <<0, 0, 0, 0>> /\ chunk = <<5, 0, 0, 0>>

\* C3 (EncodingFailure): encode_chunk ends in EncodingFailure exactly when a byte
\* position is reached at which check_div fails for every divisor d with
\* max(div, 1) <= d < max_div; it then returns no encoding and restarts no more;
\* Scenario C ends in EncodingFailure.
C3_EncodingFailure ==
    /\ [][ (pc' = "EncodingFailure")
             <=> (AtByte /\ \A d \in (IF div > 1 THEN div ELSE 1)..(max_div - 1) :
                               DivisorFails(d)) ]_vars
    /\ [][ pc = "EncodingFailure" => UNCHANGED vars ]_vars
    /\ [](pc = "EncodingFailure" => result = <<>>)
    /\ [](ScenarioC /\ pc # "loop" => pc = "EncodingFailure")

\* Scenario C has run to its EncodingFailure
C3_Witness == ScenarioC /\ pc = "EncodingFailure"

\* a pass over the four bytes of X with the uniform divisor d, carry starting at
\* 0 and threaded as in encode_chunk, has a byte position (>= k) at which
\* check_div fails
RECURSIVE UniformPassFails(_, _, _)
UniformPassFails(d, k, c) ==
    LET r == check_div(AdjustedByte(p32(X, k), c), d, good_bytes,
                       NaturalCarry(p32(X, k), c), FALSE)
    IN  IF ~r.ok THEN TRUE
        ELSE IF k = WordBytes - 1 THEN FALSE
        ELSE UniformPassFails(d, k + 1, r.carry)

\* C4 (minimality, as claimed): when encode_chunk returns div components, every
\* smaller uniform divisor d' fails at some byte position.
C4_Minimality ==
    pc = "returned" => \A d \in 1..(div - 1) : UniformPassFails(d, 0, 0)

\* check_div succeeds for divisor d on the least significant byte of X, carry 0
FirstByteSplits(d) == check_div(p32(X, 0), d, good_bytes, 0, FALSE).ok

\* C4 (minimality, amended): when encode_chunk returns div components, div is at
\* least the smallest divisor d0 that splits the least significant byte of X;
\* every d' < d0 fails (at byte position 0); and without a restart div = d0.
\* Divisors from d0 up to div - 1 may pass at all four byte positions.
C4_MinimalityFirstByte ==
    pc = "returned" =>
        \E d0 \in 1..div :
            /\ FirstByteSplits(d0)
            /\ \A d \in 1..(d0 - 1) : ~FirstByteSplits(d) /\ UniformPassFails(d, 0, 0)
            /\ restarts = 0 => d0 = div

\* an encoding that decodes to chunk was returned, after a restart, although a
\* smaller uniform divisor passes at all four byte positions
C4_Witness ==
    /\ pc = "returned" /\ restarts > 0
    /\ verify_chunk(chunk, result, initial)
    /\ \E d \in 1..(div - 1) : ~UniformPassFails(d, 0, 0)

\* Scenario A: G = {0x41}, initial = 0, chunk = 0x41414141, default ceiling
ScenarioA ==
    /\ good_bytes = <<65>> /\ max_div = DefaultMaxDiv
    /\ initial = <<0, 0, 0, 0>> /\ chunk = <<65, 65, 65, 65>>

\* C5 (Scenario A, as claimed): encode_chunk returns E = [0x41414141] (div = 1)
\* and decode(E, 0) = 0x41414141.
C5_ScenarioA ==
    ScenarioA /\ pc # "loop" =>
        /\ pc = "returned" /\ div = 1
        /\ result = << <<65, 65, 65, 65>> >>
        /\ decode(result, initial) = chunk

\* C5 (Scenario A, amended): encode_chunk raises EncodingFailure at byte position
\* 0 of the first pass (X = 0xBEBEBEBF; no d < 10 copies of 0x41 sum to 0xBF or
\* 0x1BF), returning nothing; and decode([0x41414141], 0) is 0xBEBEBEBF, not
\* 0x41414141.
C5_ScenarioAFails ==
    ScenarioA =>
        /\ X = <<191, 190, 190, 190>>
        /\ pc # "returned"
        /\ pc # "loop" =>
               /\ pc = "EncodingFailure" /\ i = 0 /\ div = 0 /\ restarts = 0
               /\ encodings = <<>> /\ result = <<>>
        /\ decode(<< <<65, 65, 65, 65>> >>, initial) = <<191, 190, 190, 190>>
        /\ ~verify_chunk(chunk, << <<65, 65, 65, 65>> >>, initial)

\* Scenario A has run to its end
C5_Witness == ScenarioA /\ pc = "EncodingFailure"

\* C6 (restart discards all progress): when encode_byte signals BiggerDivision(d)
\* the next pass begins at byte position 0 with div = d, an empty matrix of d
\* rows and carry = 0, so its first byte is the raw least significant byte of X.
C6_RestartDiscardsProgress ==
    [][ AtByte /\ ByteOutcome.tag = "BiggerDivision" =>
          /\ i' = 0
          /\ div' = ByteOutcome.div
          /\ encodings' = [r \in 1..ByteOutcome.div |-> <<>>]
          /\ carry' = 0
          /\ AdjustedByte(p32(X, 0), carry') = p32(X, 0) ]_vars

RECURSIVE SumSeq(_, _)
SumSeq(q, k) == IF k = 0 THEN 0 ELSE q[k] + SumSeq(q, k - 1)

\* the sums of n members of good_bytes (with repetition)
RECURSIVE SumsOf(_)
SumsOf(n) ==
    IF n = 0 THEN {0} ELSE {t + g : t \in SumsOf(n - 1), g \in GoodSet}

Called == pc = "called"

\* C8 (check_div soundness, single retry): a returned (k', vals) has div values,
\* each a good byte in 0..255, k' - k is 0 or 1 (the +256 retry is used at most
\* once) and the values sum to x + 256 * (k' - k).
C8_CheckDivSound ==
    Called /\ ret.ok =>
        /\ Len(ret.vals) = call.div
        /\ \A k \in 1..Len(ret.vals) :
               ret.vals[k] \in GoodSet /\ ret.vals[k] \in 0..(ByteMod - 1)
        /\ ret.carry - call.carry \in {0, 1}
        /\ SumSeq(ret.vals, Len(ret.vals)) = call.x + ByteMod * (ret.carry - call.carry)

\* check_div returned after using its retry, with values that are not all equal
C8_Witness ==
    /\ Called /\ ret.ok /\ ret.carry = call.carry + 1
    /\ \E k \in 1..Len(ret.vals) : ret.vals[k] # ret.vals[1]

\* C9 (exact-division fast path): if x % div = 0, x // div < 256 and x // div is
\* a good byte, check_div returns carry unchanged and div copies of x // div,
\* for every div >= 1.
C9_ExactDivision ==
    (/\ Called
     /\ call.x % call.div = 0
     /\ call.x \div call.div < ByteMod
     /\ (call.x \div call.div) \in GoodSet)
    => /\ ret.ok
       /\ ret.carry = call.carry
       /\ ret.vals = [k \in 1..call.div |-> call.x \div call.div]

\* C10 (completeness, as claimed): check_div raises DivisionFailed only if no
\* div members of G sum to x and none sum to x + 256.
C10_Complete ==
    Called /\ ~ret.ok =>
        /\ call.x \notin SumsOf(call.div)
        /\ (call.x + ByteMod) \notin SumsOf(call.div)

\* target t is inside check_div's search: base = t // div is a good byte below
\* 256 and, for some s in 1..div-1, s members of G and div - s copies of base
\* sum to t
InSearch(t) ==
    LET base == t \div call.div
    IN  /\ base < ByteMod
        /\ base \in GoodSet
        /\ \E n \in 1..(call.div - 1) : (t - (call.div - n) * base) \in SumsOf(n)

\* C10 (completeness, amended): check_div raises DivisionFailed only if neither
\* x nor x + 256 is inside its search (base = t // div a good byte < 256, and s
\* good bytes, 1 <= s <= div - 1, that with div - s copies of base sum to t).
C10_CompleteInSearch ==
    Called /\ ~ret.ok => ~InSearch(call.x) /\ ~InSearch(call.x + ByteMod)

\* check_div raised DivisionFailed for a div >= 2 although div good bytes sum
\* to x
C10_Witness ==
    /\ Called /\ ~ret.ok /\ call.div >= 2
    /\ call.x \in SumsOf(call.div)

====
